---- MODULE Spec2Model ----
(***************************************************************************)
(* Model of the PrecisionADC library (src/PrecisionADC.h, second library   *)
(* copy, lines 599-973): the serial key decoder readSerial(), the EEPROM    *)
(* persistence of the bandgap reference, and the interactive calibration   *)
(* loop calibrateBG().                                                     *)
(*                                                                         *)
(* Time.  millis() is a free running uint32_t.  A clock value is written   *)
(* here as its signed distance from the 2^32 roll-over: the integer t      *)
(* stands for the counter value t when t >= 0 and for 2^32 + t when t < 0. *)
(* With that reading uint32 addition of a small amount is plain addition   *)
(* and the unsigned comparison is U32Less below.                           *)
(***************************************************************************)
EXTENDS Integers, Sequences, FiniteSets, TLC

\* ------------------------------------------------------------------ bounds
MaxRx      == 3      \* bytes the receive buffer holds in the model
MaxKeys    == 2      \* key presses (or stray bytes) the terminal sends
MaxTicks   == 4      \* short clock steps in one behaviour
MaxLong    == 1      \* long quiet periods in one behaviour
MaxCalls   == 2      \* invocations of calibrateBG in one behaviour

\* ------------------------------------------------------- program constants
BGREFmV == 1100
CR == 13
LF == 10
KBUFSZ == 3
NO_KEY == -1
KEY_1 == 0
KEY_2 == 1
KEY_SPC == 2
KEY_AUP == 3
KEY_ADN == 4
KEY_ESC == 5
KEY_q == 6
KEY_j == 7
KEY_k == 8
FT_STATE_MENU == 65
FT_STATE_TUNE == 66
tout == 100
updateFreq == 1000

\* keyTab[k+1] is the C row keyTab[k]; unused trailing elements are 0.
keyTab == << <<49, 0, 0>>, <<50, 0, 0>>, <<32, 0, 0>>,
             <<27, 91, 65>>, <<27, 91, 66>>, <<27, 0, 0>>,
             <<113, 0, 0>>, <<106, 0, 0>>, <<107, 0, 0>> >>
keyTabLen == Len(keyTab)
KeyIds == 0 .. (keyTabLen - 1)

\* bgEEPROMID.label : "bgID" and its terminating 0
bgEEPROMID == <<98, 103, 73, 68, 0>>

\* --------------------------------------------------------- model inputs
\* What the terminal sends: the byte sequence of a key of the table, or a
\* single stray byte (the line ends CR and LF, and '[' which starts no key).
StrayBytes == {CR, LF, 91}
\* One step of the millisecond clock as the model sees it: half the window
\* of readSerial, so that two steps without a byte end the window.
TickStep == tout \div 2
\* A long quiet period between readSerial calls: one display interval.
LongStep == updateFreq
\* Clock value at which the object is constructed: shortly before millis()
\* rolls over, so that a behaviour covers both sides of the roll-over.
StartTime == 0 - (tout + TickStep)

VARIABLES
    pc,          \* where the single control thread is
    state,       \* calibrateBG: char state
    key,         \* calibrateBG: int8_t key
    nextUpdate,  \* calibrateBG: uint32_t nextUpdate
    bgRefmV,     \* PrecisionADC::bgRefmV
    eeprom,      \* the bgMem record stored at EEPROMAddy
    buf,         \* readSerial: uint8_t buf[KBUFSZ]
    bufIdx,      \* readSerial: uint8_t bufIdx
    exitAt,      \* readSerial: uint32_t exitAt
    matchedKey,  \* readSerial: int8_t matchedKey
    oob,         \* readSerial stored through buf[KBUFSZ] in the current call
    rx,          \* Serial: received bytes not read yet
    now,         \* millis()
    out,         \* what the last step printed on Serial (<<>> if nothing)
    nsent,       \* key presses the terminal has started so far
    pend,        \* bytes of the current key press not sent yet
    ncalls,      \* invocations of calibrateBG so far
    delivered,   \* bytes the transport delivered to the current readSerial call
    late,        \* one of them came tout ms or more after the byte before it
    rxLate,      \* per byte of rx: it came tout ms or more after its predecessor
    age,         \* ms since the last byte arrived, saturating at tout
    nticks,      \* short clock steps taken so far
    nlong,       \* long quiet periods taken so far
    lastShown,   \* <<t>>: millis() at the last display line; <<>>: none yet
    divByZero,   \* the last readVcc divided by a zero sample
    lastCall,    \* the public method a sketch called last ("" if none)
    bgVal,       \* readVcc: uint32_t bgVal of that call
    vcc,         \* readVcc: the value returned; analogVoltage: uint16_t vcc
    adcIn,       \* analogVoltage: uint16_t adcIn
    volts,       \* analogVoltage: the value returned
    ok,          \* fromEEPROM: the value returned
    lastSaved,   \* <<x>>: bgRefmV at the last toEEPROM call; <<>>: none yet
    touched      \* EEPROM addresses that call read or wrote

vars == <<pc, state, key, nextUpdate, bgRefmV, eeprom, buf, bufIdx, exitAt,
          matchedKey, oob, rx, now, out, nsent, pend, ncalls, delivered, late,
          rxLate, age, nticks, nlong, lastShown, divByZero, lastCall, bgVal,
          vcc, adcIn, volts, ok, lastSaved, touched>>

calVars == <<state, nextUpdate, bgRefmV, eeprom, ncalls>>
rsVars  == <<buf, bufIdx, exitAt, matchedKey, oob>>
envVars == <<rx, now, nsent, pend, rxLate, age, nticks, nlong>>
\* what the calls a sketch makes on the object leave behind
apiVars == <<lastCall, bgVal, vcc, adcIn, volts, ok, lastSaved, touched>>

\* ------------------------------------------------------------- helpers
KeyRange == {NO_KEY} \cup KeyIds

\* a < b on uint32_t, for clock values written as distances from 2^32
U32Less(a, b) == IF (a >= 0) = (b >= 0) THEN a < b ELSE a >= 0

\* Half the length of the clock's cycle as the model runs it.  The counter
\* is a uint32_t and its cycle is 2^32 ms; the model keeps the arithmetic of
\* the cycle (sums wrap, comparisons are unsigned) on a cycle of
\* 2 * ClockHalf ms, long enough that a behaviour of Spec stays inside one
\* cycle and short enough that the clock of SpecLive can go round for ever.
ClockHalf == 4 * updateFreq
\* a clock value brought back into the cycle
WrapClock(t) == IF t >= ClockHalf THEN t - 2 * ClockHalf ELSE t

\* millis() + d on uint32_t
MillisPlus(d) == WrapClock(now + d)

\* Serial.available()
SerialAvailable(q) == Len(q) > 0

Max(S) == CHOOSE x \in S : \A y \in S : y <= x

\* The inner while of readSerial: the number of leading elements on which
\* the table row k and the buffer b agree, at most KBUFSZ.
MatchLen(k, b) ==
    CHOOSE c \in 0 .. KBUFSZ :
        /\ \A i \in 1 .. c : keyTab[k + 1][i] = b[i]
        /\ (c = KBUFSZ \/ keyTab[k + 1][c + 1] # b[c + 1])

\* The for loop of readSerial over the key table: rows whose first char is
\* the buffer's first char, split into complete and partial matches.
FirstCharRows(b) == {k \in KeyIds : b[1] = keyTab[k + 1][1]}
FullRows(b) == {k \in FirstCharRows(b) : MatchLen(k, b) = KBUFSZ}
\* matchedKey after the for loop: the last complete match, else NO_KEY
ScanMatched(b) == IF FullRows(b) = {} THEN NO_KEY ELSE Max(FullRows(b))
\* partial after the for loop
ScanPartial(b) == Cardinality(FirstCharRows(b) \ FullRows(b))

\* ExactAndIdle with the test of the serial buffer inverted
ExactAndIdle_inverted(m, p, q) == m # NO_KEY /\ p = 0 /\ SerialAvailable(q)
\* line 766: exact match, nothing partial, serial buffer empty
ExactAndIdle(m, p, q) == m # NO_KEY /\ p = 0 /\ ~SerialAvailable(q)
\* line 774: nothing can match any more
NoMoreMatches(p, idx) == p = 0 \/ idx = KBUFSZ

\* the first n elements of s
Prefix(s, n) == SubSeq(s, 1, IF Len(s) < n THEN Len(s) ELSE n)

\* strcmp(a, b) == 0 : equal up to and including the first 0
CStr(s) == SubSeq(s, 1, (CHOOSE n \in 0 .. Len(s) :
                 /\ \A i \in 1 .. n : s[i] # 0
                 /\ (n = Len(s) \/ s[n + 1] = 0)))
\* strncmp(a, b, 4) == 0 : the terminator is not compared
Strncmp4Eq(a, b) == CStr(Prefix(a, 4)) = CStr(Prefix(b, 4))
StrcmpEq(a, b) == CStr(a) = CStr(b)

\* what a line of output is in the model: a tag and a number
Line(t, v) == [t |-> t, v |-> v]
Menu == Line("menu", 0)

\* the bytes of table row k without the unused trailing elements
KeySeq(k) == SelectSeq(keyTab[k + 1], LAMBDA b : b # 0)
\* what one key press puts on the line
Presses == {KeySeq(k) : k \in KeyIds} \cup {<<b>> : b \in StrayBytes}

\* -------------------------------------------------------------- Init
ErasedRecord == [label |-> <<255, 255, 255, 255, 255>>, bgRef |-> 65535]
SavedRecord  == [label |-> bgEEPROMID, bgRef |-> 1125]
EepromInits  == {ErasedRecord, SavedRecord}
\* arguments of the constructor PrecisionADC(uint16_t mV)
CtorArgs == {0}

\* PrecisionADC() without the fromEEPROM() call
DefaultCtor_noload(e) == BGREFmV
\* PrecisionADC() : bgRefmV(BGREFmV) { fromEEPROM(); }
DefaultCtor(e) == IF StrcmpEq(bgEEPROMID, e.label) THEN e.bgRef ELSE BGREFmV

Init ==
    /\ eeprom \in EepromInits
    /\ bgRefmV \in {DefaultCtor(eeprom)} \cup CtorArgs
    /\ pc = "idle"
    /\ state = FT_STATE_MENU
    /\ key = NO_KEY
    /\ nextUpdate = 0
    /\ buf = <<0, 0, 0>>
    /\ bufIdx = 0
    /\ exitAt = 0
    /\ matchedKey = NO_KEY
    /\ oob = FALSE
    /\ rx = <<>>
    /\ now = StartTime
    /\ out = <<>>
    /\ nsent = 0
    /\ pend = <<>>
    /\ ncalls = 0
    /\ delivered = <<>>
    /\ late = FALSE
    /\ rxLate = <<>>
    /\ age = tout
    /\ nticks = 0
    /\ nlong = 0
    /\ lastShown = <<>>
    /\ divByZero = FALSE
    /\ lastCall = ""
    /\ bgVal = 0
    /\ vcc = 0
    /\ adcIn = 0
    /\ volts = 0
    /\ ok = FALSE
    /\ lastSaved = <<>>
    /\ touched = {}

\* ------------------------------------------------------- environment
\* The terminal sends byte b; it lands in the receive buffer.  The steps of
\* calibrateBG between two readSerial calls take no time in the model, so a
\* byte arrives while the program is in readSerial or about to call it.
Arrive ==
    /\ pc \in {"poll", "rs_loop"}
    /\ Len(rx) < MaxRx
    /\ \E s \in (IF pend # <<>> THEN {pend} ELSE Presses) :
        /\ pend # <<>> \/ nsent < MaxKeys
        /\ nsent' = IF pend # <<>> THEN nsent ELSE nsent + 1
        /\ rx' = Append(rx, Head(s))
        /\ pend' = Tail(s)
        /\ delivered' = IF pc = "rs_loop" THEN Append(delivered, Head(s))
                                          ELSE delivered
    /\ rxLate' = Append(rxLate, age >= tout)
    /\ late' = IF pc = "rs_loop" THEN late \/ (age >= tout) ELSE late
    /\ age' = 0
    /\ out' = <<>>
    /\ UNCHANGED <<pc, key, now, nticks, nlong>>
    /\ UNCHANGED calVars
    /\ UNCHANGED rsVars
    /\ UNCHANGED <<lastShown, divByZero, apiVars>>

\* The program runs many statements per millisecond: the clock does not move
\* while the program has something to do, that is while calibrateBG acts on
\* a key, while a byte waits to be read, or while readSerial is past its
\* deadline.
Busy ==
    \/ pc = "dispatch"
    \/ pc \in {"poll", "rs_loop"} /\ SerialAvailable(rx)
    \/ pc = "rs_loop" /\ ~U32Less(now, exitAt)

Tick ==
    /\ ~Busy
    /\ nticks < MaxTicks
    /\ nticks' = nticks + 1
    /\ now' = now + TickStep
    /\ age' = IF age + TickStep >= tout THEN tout ELSE age + TickStep
    /\ out' = <<>>
    /\ UNCHANGED <<pc, key, rx, nsent, pend, rxLate, delivered, late, nlong>>
    /\ UNCHANGED calVars
    /\ UNCHANGED rsVars
    /\ UNCHANGED <<lastShown, divByZero, apiVars>>

\* A long quiet period: nothing received, no readSerial call running.
TickLong ==
    /\ pc = "poll"
    /\ ~SerialAvailable(rx)
    /\ nlong < MaxLong
    /\ nlong' = nlong + 1
    /\ now' = now + LongStep
    /\ age' = tout
    /\ out' = <<>>
    /\ UNCHANGED <<pc, key, rx, nsent, pend, rxLate, delivered, late, nticks>>
    /\ UNCHANGED calVars
    /\ UNCHANGED rsVars
    /\ UNCHANGED <<lastShown, divByZero, apiVars>>

\* ---------------------------------------------------------- readSerial
\* The locals of readSerial do not exist outside a call: on return they are
\* given the values they have before the first call.
NoLocals ==
    /\ buf' = <<0, 0, 0>>
    /\ bufIdx' = 0
    /\ exitAt' = 0
    /\ matchedKey' = NO_KEY

\* readSerial without its first test: it enters the wait loop with nothing
\* to read.
readSerial_bail_waits ==
    /\ pc = "poll"
    /\ ~SerialAvailable(rx)
    /\ buf' = <<0, 0, 0>>
    /\ bufIdx' = 0
    /\ exitAt' = MillisPlus(tout)
    /\ matchedKey' = NO_KEY
    /\ oob' = FALSE
    /\ pc' = "rs_loop"
    /\ out' = <<>>
    /\ delivered' = <<>>
    /\ late' = FALSE
    /\ UNCHANGED key
    /\ UNCHANGED calVars
    /\ UNCHANGED envVars
    /\ divByZero' = FALSE
    /\ UNCHANGED <<lastShown, apiVars>>

\* if(!Serial.available()) return NO_KEY;
readSerial_bail ==
    /\ pc = "poll"
    /\ ~SerialAvailable(rx)
    /\ key' = NO_KEY
    /\ pc' = "dispatch"
    /\ out' = <<>>
    /\ delivered' = <<>>
    /\ late' = FALSE
    /\ UNCHANGED calVars
    /\ UNCHANGED rsVars
    /\ UNCHANGED envVars
    /\ divByZero' = FALSE
    /\ UNCHANGED <<lastShown, apiVars>>

\* The declarations in front of the while loop.
readSerial_begin ==
    /\ pc = "poll"
    /\ SerialAvailable(rx)
    /\ buf' = <<0, 0, 0>>
    /\ bufIdx' = 0
    /\ exitAt' = MillisPlus(tout)
    /\ matchedKey' = NO_KEY
    /\ oob' = FALSE
    /\ pc' = "rs_loop"
    /\ out' = <<>>
    /\ delivered' = rx
    /\ late' = (\E i \in 2 .. Len(rx) : rxLate[i])
    /\ UNCHANGED key
    /\ UNCHANGED calVars
    /\ UNCHANGED envVars
    /\ divByZero' = FALSE
    /\ UNCHANGED <<lastShown, apiVars>>

\* while(millis() < exitAt) is false: return matchedKey
readSerial_timeout ==
    /\ pc = "rs_loop"
    /\ ~U32Less(now, exitAt)
    /\ key' = matchedKey
    /\ pc' = "dispatch"
    /\ out' = <<>>
    /\ NoLocals
    /\ UNCHANGED <<oob, delivered, late>>
    /\ UNCHANGED calVars
    /\ UNCHANGED envVars
    /\ UNCHANGED <<lastShown, divByZero, apiVars>>

\* A CR or LF pass with the deadline reset placed in front of the CR/LF test
readSerial_skip_rearms ==
    /\ pc = "rs_loop"
    /\ U32Less(now, exitAt)
    /\ SerialAvailable(rx)
    /\ bufIdx < KBUFSZ
    /\ Head(rx) \in {CR, LF}
    /\ rx' = Tail(rx)
    /\ rxLate' = Tail(rxLate)
    /\ exitAt' = MillisPlus(tout)
    /\ out' = <<>>
    /\ UNCHANGED <<pc, key, now, nsent, pend, age, delivered, late, nticks, nlong>>
    /\ UNCHANGED calVars
    /\ UNCHANGED <<buf, bufIdx, matchedKey, oob>>
    /\ UNCHANGED <<lastShown, divByZero, apiVars>>

\* A pass that reads CR or LF into buf[bufIdx], bufIdx < KBUFSZ: the element
\* is set back to 0 and the deadline is left alone.
readSerial_skip ==
    /\ pc = "rs_loop"
    /\ U32Less(now, exitAt)
    /\ SerialAvailable(rx)
    /\ bufIdx < KBUFSZ
    /\ Head(rx) \in {CR, LF}
    /\ rx' = Tail(rx)
    /\ rxLate' = Tail(rxLate)
    /\ out' = <<>>
    /\ UNCHANGED <<pc, key, now, nsent, pend, age, delivered, late, nticks, nlong>>
    /\ UNCHANGED calVars
    /\ UNCHANGED rsVars
    /\ UNCHANGED <<lastShown, divByZero, apiVars>>

\* A pass that reads any other byte into buf[bufIdx], bufIdx < KBUFSZ.
readSerial_accept ==
    /\ pc = "rs_loop"
    /\ U32Less(now, exitAt)
    /\ SerialAvailable(rx)
    /\ bufIdx < KBUFSZ
    /\ Head(rx) \notin {CR, LF}
    /\ rx' = Tail(rx)
    /\ rxLate' = Tail(rxLate)
    /\ out' = <<>>
    /\ LET nbuf == [buf EXCEPT ![bufIdx + 1] = Head(rx)]
           m == ScanMatched(nbuf)
           p == ScanPartial(nbuf)
       IN  IF ExactAndIdle(m, p, rx')
             THEN /\ key' = m
                  /\ pc' = "dispatch"
                  /\ NoLocals
             ELSE IF NoMoreMatches(p, bufIdx)
             THEN /\ key' = NO_KEY
                  /\ pc' = "dispatch"
                  /\ NoLocals
             ELSE /\ buf' = nbuf
                  /\ exitAt' = MillisPlus(tout)
                  /\ matchedKey' = m
                  /\ bufIdx' = bufIdx + 1
                  /\ UNCHANGED <<pc, key>>
    /\ UNCHANGED <<oob, now, nsent, pend, age, delivered, late, nticks, nlong>>
    /\ UNCHANGED calVars
    /\ UNCHANGED <<lastShown, divByZero, apiVars>>

\* A pass with bufIdx = KBUFSZ: buf[bufIdx] = Serial.read() stores one element
\* past the end of buf.  What the stray store overwrites is not defined by
\* the language; the model lets it be harmless or alter the key the call
\* goes on to return.  Left alone, a CR or LF continues the loop and any
\* other byte re-runs the table scan on the unchanged buf[0..2], fails the
\* test of line 766 (partial was not 0 when bufIdx was last incremented) and
\* returns NO_KEY at line 774.
readSerial_stray ==
    /\ pc = "rs_loop"
    /\ U32Less(now, exitAt)
    /\ SerialAvailable(rx)
    /\ bufIdx >= KBUFSZ
    /\ rx' = Tail(rx)
    /\ rxLate' = Tail(rxLate)
    /\ oob' = TRUE
    /\ out' = <<>>
    /\ IF Head(rx) \in {CR, LF}
         THEN /\ matchedKey' \in {matchedKey} \cup KeyRange
              /\ UNCHANGED <<pc, key, exitAt>>
              /\ UNCHANGED <<buf, bufIdx>>
         ELSE /\ key' \in KeyRange
              /\ pc' = "dispatch"
              /\ NoLocals
    /\ UNCHANGED <<now, nsent, pend, age, delivered, late, nticks, nlong>>
    /\ UNCHANGED calVars
    /\ UNCHANGED <<lastShown, divByZero, apiVars>>

\* ------------------------------------------------- EEPROM persistence
\* E2END, the last EEPROM address, of an ATmega328P (1 KiB of EEPROM)
E2END == 1023
\* sizeof(bgMem) on AVR: char label[5] and uint16_t bgRef, no padding
SizeofBgMem == 7
\* const uint16_t EEPROMAddy = E2END - sizeof(bgMem);
EEPROMAddy == E2END - SizeofBgMem
\* the addresses EEPROM.put / EEPROM.get (EEPROMAddy, <bgMem>) access
RecordBytes == EEPROMAddy .. (EEPROMAddy + SizeofBgMem - 1)

\* toEEPROM that writes the nominal constant instead of the current one
toEEPROM_nominal(r) == [label |-> bgEEPROMID, bgRef |-> BGREFmV]
\* toEEPROM without line 793: bgEEPROMID is written as it was initialised
toEEPROM_stale(r) == [label |-> bgEEPROMID, bgRef |-> 0]
\* toEEPROM(): bgEEPROMID.bgRef = bgRefmV; EEPROM.put(EEPROMAddy, bgEEPROMID)
toEEPROM(r) == [label |-> bgEEPROMID, bgRef |-> r]

\* fromEEPROM(): the value it returns, and bgRefmV after it
fromEEPROM_ok(e) == StrcmpEq(bgEEPROMID, e.label)
\* fromEEPROM that takes the stored value before it checks the label
fromEEPROM_ref_unchecked(e, r) == e.bgRef
\* fromEEPROM that takes the stored value when the four letters match
fromEEPROM_ref_letters(e, r) ==
    IF Strncmp4Eq(bgEEPROMID, e.label) THEN e.bgRef ELSE r
fromEEPROM_ref(e, r) == IF fromEEPROM_ok(e) THEN e.bgRef ELSE r

\* ------------------------------------------------------------ readVcc
\* raw bandgap samples bgADC() returns in the model
AdcSamples == {0, 1, 225, 1023}
\* what the division by a zero sample may leave in the uint16_t result
DivZeroResults == {0, 65535}
\* (uint16_t)((bgRefmV * 1024L) / bgVal)
readVcc(r, a) == IF a = 0 THEN DivZeroResults
                          ELSE {((r * 1024) \div a) % 65536}

\* --------------------------------------------------------- calibrateBG
\* The record of the last readSerial call is dropped once calibrateBG has
\* acted on the key.
Forget ==
    /\ delivered' = <<>>
    /\ late' = FALSE
    /\ oob' = FALSE
    /\ UNCHANGED <<buf, bufIdx, exitAt, matchedKey>>

\* Entry of calibrateBG() up to the loop.
calibrateBG_start ==
    /\ pc = "idle"
    /\ ncalls < MaxCalls
    /\ ncalls' = ncalls + 1
    /\ state' = FT_STATE_MENU
    /\ nextUpdate' = MillisPlus(updateFreq)
    /\ out' = <<Menu>>
    /\ pc' = "poll"
    /\ UNCHANGED <<key, bgRefmV, eeprom>>
    /\ Forget
    /\ UNCHANGED envVars
    /\ UNCHANGED <<lastShown, divByZero, apiVars>>

\* key == NO_KEY and the live display is not due (or the state is menu)
calibrateBG_nokey ==
    /\ pc = "dispatch"
    /\ key = NO_KEY
    /\ ~(state = FT_STATE_TUNE /\ ~U32Less(now, nextUpdate))
    /\ out' = <<>>
    /\ pc' = "poll"
    /\ UNCHANGED key
    /\ UNCHANGED calVars
    /\ Forget
    /\ UNCHANGED envVars
    /\ UNCHANGED <<lastShown, divByZero, apiVars>>

\* The display branch that resets nextUpdate and prints nothing
calibrateBG_display_silent ==
    /\ pc = "dispatch"
    /\ key = NO_KEY
    /\ state = FT_STATE_TUNE
    /\ ~U32Less(now, nextUpdate)
    /\ out' = <<>>
    /\ divByZero' = FALSE
    /\ lastShown' = <<now>>
    /\ nextUpdate' = MillisPlus(updateFreq)
    /\ pc' = "poll"
    /\ UNCHANGED <<key, state, bgRefmV, eeprom, ncalls>>
    /\ Forget
    /\ UNCHANGED envVars
    /\ UNCHANGED apiVars

\* key == NO_KEY, state tune, millis() >= nextUpdate: show values
calibrateBG_display ==
    /\ pc = "dispatch"
    /\ key = NO_KEY
    /\ state = FT_STATE_TUNE
    /\ ~U32Less(now, nextUpdate)
    /\ \E a \in AdcSamples : \E v \in readVcc(bgRefmV, a) :
           /\ out' = <<Line("vcc", v), Line("bgref", bgRefmV)>>
           /\ divByZero' = (a = 0)
    /\ lastShown' = <<now>>
    /\ nextUpdate' = MillisPlus(updateFreq)
    /\ pc' = "poll"
    /\ UNCHANGED <<key, state, bgRefmV, eeprom, ncalls>>
    /\ Forget
    /\ UNCHANGED envVars
    /\ UNCHANGED apiVars

\* Space that tests the state for the menu before it toggles it
calibrateBG_space_early ==
    /\ pc = "dispatch"
    /\ key = KEY_SPC
    /\ state' = IF state = FT_STATE_MENU THEN FT_STATE_TUNE ELSE FT_STATE_MENU
    /\ out' = IF state = FT_STATE_MENU THEN <<Menu>> ELSE <<>>
    /\ pc' = "poll"
    /\ UNCHANGED <<key, nextUpdate, bgRefmV, eeprom, ncalls>>
    /\ Forget
    /\ UNCHANGED envVars
    /\ UNCHANGED <<lastShown, divByZero, apiVars>>

\* Space that prints but does not toggle the state
calibrateBG_space_stays ==
    /\ pc = "dispatch"
    /\ key = KEY_SPC
    /\ out' = IF state = FT_STATE_MENU THEN <<Menu>> ELSE <<>>
    /\ pc' = "poll"
    /\ UNCHANGED <<key, state, nextUpdate, bgRefmV, eeprom, ncalls>>
    /\ Forget
    /\ UNCHANGED envVars
    /\ UNCHANGED <<lastShown, divByZero, apiVars>>

\* key == KEY_SPC: toggle the state, print the menu when it becomes menu
calibrateBG_space ==
    /\ pc = "dispatch"
    /\ key = KEY_SPC
    /\ state' = IF state = FT_STATE_MENU THEN FT_STATE_TUNE ELSE FT_STATE_MENU
    /\ out' = IF state' = FT_STATE_MENU THEN <<Menu>> ELSE <<>>
    /\ pc' = "poll"
    /\ UNCHANGED <<key, nextUpdate, bgRefmV, eeprom, ncalls>>
    /\ Forget
    /\ UNCHANGED envVars
    /\ UNCHANGED <<lastShown, divByZero, apiVars>>

\* key == KEY_ESC || key == KEY_q in menu state: return
calibrateBG_exit ==
    /\ pc = "dispatch"
    /\ key \in {KEY_ESC, KEY_q}
    /\ state = FT_STATE_MENU
    /\ out' = <<>>
    /\ pc' = "idle"
    /\ UNCHANGED key
    /\ UNCHANGED calVars
    /\ Forget
    /\ UNCHANGED envVars
    /\ UNCHANGED <<lastShown, divByZero, apiVars>>

\* Escape in tune state that goes to menu state without printing the menu
calibrateBG_tomenu_silent ==
    /\ pc = "dispatch"
    /\ key \in {KEY_ESC, KEY_q}
    /\ state # FT_STATE_MENU
    /\ state' = FT_STATE_MENU
    /\ out' = <<>>
    /\ pc' = "poll"
    /\ UNCHANGED <<key, nextUpdate, bgRefmV, eeprom, ncalls>>
    /\ Forget
    /\ UNCHANGED envVars
    /\ UNCHANGED <<lastShown, divByZero, apiVars>>

\* Escape in tune state that prints the menu but stays in tune state
calibrateBG_tomenu_stays ==
    /\ pc = "dispatch"
    /\ key \in {KEY_ESC, KEY_q}
    /\ state # FT_STATE_MENU
    /\ out' = <<Menu>>
    /\ pc' = "poll"
    /\ UNCHANGED <<key, state, nextUpdate, bgRefmV, eeprom, ncalls>>
    /\ Forget
    /\ UNCHANGED envVars
    /\ UNCHANGED <<lastShown, divByZero, apiVars>>

\* Escape in tune state leaving calibrateBG instead of showing the menu
calibrateBG_tomenu_returns ==
    /\ pc = "dispatch"
    /\ key \in {KEY_ESC, KEY_q}
    /\ state # FT_STATE_MENU
    /\ out' = <<>>
    /\ pc' = "idle"
    /\ UNCHANGED key
    /\ UNCHANGED calVars
    /\ Forget
    /\ UNCHANGED envVars
    /\ UNCHANGED <<lastShown, divByZero, apiVars>>

\* key == KEY_ESC || key == KEY_q in tune state: back to the menu
calibrateBG_tomenu ==
    /\ pc = "dispatch"
    /\ key \in {KEY_ESC, KEY_q}
    /\ state # FT_STATE_MENU
    /\ state' = FT_STATE_MENU
    /\ out' = <<Menu>>
    /\ pc' = "poll"
    /\ UNCHANGED <<key, nextUpdate, bgRefmV, eeprom, ncalls>>
    /\ Forget
    /\ UNCHANGED envVars
    /\ UNCHANGED <<lastShown, divByZero, apiVars>>

\* The menu branch without the continue of line 917: a key other than '1'
\* and '2' falls through to state = FT_STATE_TUNE
calibrateBG_menukey_falls ==
    /\ pc = "dispatch"
    /\ key \notin {NO_KEY, KEY_SPC, KEY_ESC, KEY_q}
    /\ state = FT_STATE_MENU
    /\ pc' = "poll"
    /\ IF key # KEY_1 /\ key # KEY_2
         THEN /\ out' = <<>>
              /\ state' = FT_STATE_TUNE
              /\ UNCHANGED <<bgRefmV, eeprom>>
         ELSE IF key = KEY_2
         THEN /\ eeprom' = toEEPROM(bgRefmV)
              /\ out' = <<Line("saved", 0)>>
              /\ state' = FT_STATE_TUNE
              /\ UNCHANGED bgRefmV
         ELSE IF fromEEPROM_ok(eeprom)
         THEN /\ bgRefmV' = fromEEPROM_ref(eeprom, bgRefmV)
              /\ out' = <<Line("retrieved", 0)>>
              /\ state' = FT_STATE_TUNE
              /\ UNCHANGED eeprom
         ELSE /\ bgRefmV' = fromEEPROM_ref(eeprom, bgRefmV)
              /\ out' = <<Line("nosaved", 0)>>
              /\ UNCHANGED <<state, eeprom>>
    /\ UNCHANGED <<key, nextUpdate, ncalls>>
    /\ Forget
    /\ UNCHANGED envVars
    /\ UNCHANGED <<lastShown, divByZero, apiVars>>

\* the else-if (state == FT_STATE_MENU) branch: EEPROM save and get
calibrateBG_menukey ==
    /\ pc = "dispatch"
    /\ key \notin {NO_KEY, KEY_SPC, KEY_ESC, KEY_q}
    /\ state = FT_STATE_MENU
    /\ pc' = "poll"
    /\ IF key # KEY_1 /\ key # KEY_2
         THEN /\ out' = <<>>
              /\ UNCHANGED <<state, bgRefmV, eeprom>>
         ELSE IF key = KEY_2
         THEN /\ eeprom' = toEEPROM(bgRefmV)
              /\ out' = <<Line("saved", 0)>>
              /\ state' = FT_STATE_TUNE
              /\ UNCHANGED bgRefmV
         ELSE IF fromEEPROM_ok(eeprom)
         THEN /\ bgRefmV' = fromEEPROM_ref(eeprom, bgRefmV)
              /\ out' = <<Line("retrieved", 0)>>
              /\ state' = FT_STATE_TUNE
              /\ UNCHANGED eeprom
         ELSE /\ bgRefmV' = fromEEPROM_ref(eeprom, bgRefmV)
              /\ out' = <<Line("nosaved", 0)>>
              /\ UNCHANGED <<state, eeprom>>
    /\ UNCHANGED <<key, nextUpdate, ncalls>>
    /\ Forget
    /\ UNCHANGED envVars
    /\ UNCHANGED <<lastShown, divByZero, apiVars>>

\* bgRefmV++ and bgRefmV-- on uint16_t
Incr16(r) == (r + 1) % 65536
Decr16(r) == (r + 65535) % 65536

\* The adjustment branch with a save after every step
calibrateBG_tunekey_saves ==
    /\ pc = "dispatch"
    /\ key \notin {NO_KEY, KEY_SPC, KEY_ESC, KEY_q}
    /\ state # FT_STATE_MENU
    /\ pc' = "poll"
    /\ IF key = KEY_AUP \/ key = KEY_k
         THEN /\ out' = <<Line("up", 0)>>
              /\ bgRefmV' = Incr16(bgRefmV)
         ELSE IF key = KEY_ADN \/ key = KEY_j
         THEN /\ out' = <<Line("down", 0)>>
              /\ bgRefmV' = Decr16(bgRefmV)
         ELSE /\ out' = <<>>
              /\ UNCHANGED bgRefmV
    /\ eeprom' = toEEPROM(bgRefmV')
    /\ UNCHANGED <<key, state, nextUpdate, ncalls>>
    /\ Forget
    /\ UNCHANGED envVars
    /\ UNCHANGED <<lastShown, divByZero, apiVars>>

\* the final else branch: state is tuning, deal with adjustments
calibrateBG_tunekey ==
    /\ pc = "dispatch"
    /\ key \notin {NO_KEY, KEY_SPC, KEY_ESC, KEY_q}
    /\ state # FT_STATE_MENU
    /\ pc' = "poll"
    /\ IF key = KEY_AUP \/ key = KEY_k
         THEN /\ out' = <<Line("up", 0)>>
              /\ bgRefmV' = Incr16(bgRefmV)
         ELSE IF key = KEY_ADN \/ key = KEY_j
         THEN /\ out' = <<Line("down", 0)>>
              /\ bgRefmV' = Decr16(bgRefmV)
         ELSE /\ out' = <<>>
              /\ UNCHANGED bgRefmV
    /\ UNCHANGED <<key, state, nextUpdate, eeprom, ncalls>>
    /\ Forget
    /\ UNCHANGED envVars
    /\ UNCHANGED <<lastShown, divByZero, apiVars>>

\* ------------------------------------------------------- specification
Next ==
    \/ Arrive
    \/ Tick
    \/ TickLong
    \/ readSerial_bail
    \/ readSerial_begin
    \/ readSerial_timeout
    \/ readSerial_skip
    \/ readSerial_accept
    \/ readSerial_stray
    \/ calibrateBG_start
    \/ calibrateBG_nokey
    \/ calibrateBG_display
    \/ calibrateBG_space
    \/ calibrateBG_exit
    \/ calibrateBG_tomenu
    \/ calibrateBG_menukey
    \/ calibrateBG_tunekey

Spec == Init /\ [][Next]_vars

\* ------------------------------------------- the clock running for ever
\* millis() advances by one display interval, going round its cycle, with
\* no limit on the number of steps.
TickLive ==
    /\ ~Busy
    /\ now' = WrapClock(now + LongStep)
    /\ age' = tout
    /\ out' = <<>>
    /\ UNCHANGED <<pc, key, rx, nsent, pend, rxLate, delivered, late,
                   nticks, nlong>>
    /\ UNCHANGED calVars
    /\ UNCHANGED rsVars
    /\ UNCHANGED <<lastShown, divByZero, apiVars>>

\* The terminal of SpecLive sends the space key only: that takes calibrateBG
\* into tune state, where the display line is printed while nothing arrives.
ArriveLive ==
    /\ Arrive
    /\ rx' = rx \o KeySeq(KEY_SPC)

\* The statements of readSerial and of the loop of calibrateBG that such
\* input reaches; the program never stops executing them once calibrateBG
\* has been entered.
Program ==
    \/ readSerial_bail
    \/ readSerial_begin
    \/ readSerial_accept
    \/ calibrateBG_nokey
    \/ calibrateBG_display
    \/ calibrateBG_space

NextLive ==
    \/ ArriveLive
    \/ TickLive
    \/ calibrateBG_start
    \/ Program

\* the values the clock of SpecLive takes
ClockValues ==
    {WrapClock(StartTime + n * LongStep) :
        n \in 0 .. ((2 * ClockHalf) \div LongStep)}
\* calibrateBG calls readSerial while millis() is t
Pass(t) == now = t /\ (readSerial_bail \/ readSerial_begin)

\* The processor keeps executing the program (weak fairness: a statement
\* that stays ready is executed), the timer keeps counting whatever the
\* program does (strong fairness: the clock moves whenever the program is
\* between two statements again and again), and a pass of the loop takes
\* far less than a millisecond, so that the loop calls readSerial at every
\* value the clock takes (strong fairness per clock value).
SpecLive ==
    /\ Init
    /\ [][NextLive]_vars
    /\ WF_vars(Program)
    /\ SF_vars(TickLive)
    /\ \A t \in ClockValues : SF_vars(Pass(t))

\* ------------------------------------------- the measurement methods
\* The sketch calls the public methods of the object while calibrateBG is
\* not running.  lastCall names the method called last; bgVal, vcc, adcIn,
\* volts and ok are the locals and the result of that call (0 when the call
\* has no such local).

\* values a sketch passes to setBGRef(uint16_t mV)
RefValues == {0, 1000, 1100, 1125, 1200, 65535}
\* values bgADC() returns to readVcc: a 10 bit conversion, and 1024
BandgapSamples == 0 .. 1024
\* values analogRead(pin) returns to analogVoltage
ChannelSamples == {0, 1, 511, 512, 1000, 1022, 1023}

\* Arduino's long map(long x, long in_min, long in_max, long out_min,
\* long out_max); all operands here are non-negative and below 2^31
ArduinoMap(x, in_min, in_max, out_min, out_max) ==
    ((x - in_min) * (out_max - out_min)) \div (in_max - in_min) + out_min

\* analogVoltage with the conversion range taken as 0..1024
analogVoltage_1024(s, v) == ArduinoMap(s, 0, 1024, 0, v) % 65536
\* analogVoltage scaling by the nominal 5000 mV instead of the measured Vcc
analogVoltage_nominal(s, v) == ArduinoMap(s, 0, 1023, 0, 5000) % 65536
\* return map(adcIn, 0, 1023, 0, vcc); as uint16_t
analogVoltage(s, v) == ArduinoMap(s, 0, 1023, 0, v) % 65536

\* void setBGRef(uint16_t mV) {bgRefmV = mV;}
setBGRef_call ==
    /\ pc = "idle"
    /\ \E mV \in RefValues : bgRefmV' = mV
    /\ lastCall' = "setBGRef"
    /\ bgVal' = 0
    /\ vcc' = 0
    /\ adcIn' = 0
    /\ volts' = 0
    /\ ok' = FALSE
    /\ divByZero' = FALSE
    /\ touched' = {}
    /\ UNCHANGED <<pc, state, key, nextUpdate, eeprom, ncalls, out, lastShown,
                   lastSaved, delivered, late>>
    /\ UNCHANGED rsVars
    /\ UNCHANGED envVars

\* uint16_t readVcc()
readVcc_call ==
    /\ pc = "idle"
    /\ \E a \in BandgapSamples : \E v \in readVcc(bgRefmV, a) :
           /\ bgVal' = a
           /\ vcc' = v
           /\ divByZero' = (a = 0)
    /\ lastCall' = "readVcc"
    /\ adcIn' = 0
    /\ volts' = 0
    /\ ok' = FALSE
    /\ touched' = {}
    /\ UNCHANGED <<pc, state, key, nextUpdate, bgRefmV, eeprom, ncalls, out,
                   lastShown, lastSaved, delivered, late>>
    /\ UNCHANGED rsVars
    /\ UNCHANGED envVars

\* uint16_t analogVoltage(uint16_t pin)
analogVoltage_call ==
    /\ pc = "idle"
    /\ \E a \in AdcSamples : \E v \in readVcc(bgRefmV, a) :
       \E s \in ChannelSamples :
           /\ bgVal' = a
           /\ vcc' = v
           /\ divByZero' = (a = 0)
           /\ adcIn' = s
           /\ volts' = analogVoltage(s, v)
    /\ lastCall' = "analogVoltage"
    /\ ok' = FALSE
    /\ touched' = {}
    /\ UNCHANGED <<pc, state, key, nextUpdate, bgRefmV, eeprom, ncalls, out,
                   lastShown, lastSaved, delivered, late>>
    /\ UNCHANGED rsVars
    /\ UNCHANGED envVars

NextMeasure ==
    \/ setBGRef_call
    \/ readVcc_call
    \/ analogVoltage_call

SpecMeasure == Init /\ [][NextMeasure]_vars

\* ------------------------------------------- the persistence methods
\* label fields the EEPROM may hold before the library writes it: erased
\* (0xFF), zeroed, the signature, the signature without its terminator
\* ("bgIDX"), a different text ("bgIX"), and a shorter text ("bg")
SlotLabels == { <<255, 255, 255, 255, 255>>, <<0, 0, 0, 0, 0>>, bgEEPROMID,
                <<98, 103, 73, 68, 88>>, <<98, 103, 73, 88, 0>>,
                <<98, 103, 0, 0, 0>> }
SlotInits == {[label |-> l, bgRef |-> v] : l \in SlotLabels,
                                           v \in {0, 1125, 65535}}

InitPersist ==
    /\ eeprom \in SlotInits
    /\ bgRefmV \in {DefaultCtor(eeprom)} \cup CtorArgs
    /\ pc = "idle"
    /\ state = FT_STATE_MENU
    /\ key = NO_KEY
    /\ nextUpdate = 0
    /\ buf = <<0, 0, 0>>
    /\ bufIdx = 0
    /\ exitAt = 0
    /\ matchedKey = NO_KEY
    /\ oob = FALSE
    /\ rx = <<>>
    /\ now = StartTime
    /\ out = <<>>
    /\ nsent = 0
    /\ pend = <<>>
    /\ ncalls = 0
    /\ delivered = <<>>
    /\ late = FALSE
    /\ rxLate = <<>>
    /\ age = tout
    /\ nticks = 0
    /\ nlong = 0
    /\ lastShown = <<>>
    /\ divByZero = FALSE
    /\ lastCall = ""
    /\ bgVal = 0
    /\ vcc = 0
    /\ adcIn = 0
    /\ volts = 0
    /\ ok = FALSE
    /\ lastSaved = <<>>
    /\ touched = {}

\* A new object on the same EEPROM: PrecisionADC() or PrecisionADC(mV)
construct_call ==
    /\ pc = "idle"
    /\ \/ /\ bgRefmV' = DefaultCtor(eeprom)
          /\ lastCall' = "PrecisionADC()"
          /\ touched' = RecordBytes
       \/ /\ bgRefmV' \in CtorArgs
          /\ lastCall' = "PrecisionADC(mV)"
          /\ touched' = {}
    /\ ok' = FALSE
    /\ UNCHANGED <<pc, state, key, nextUpdate, eeprom, ncalls, out, lastShown,
                   divByZero, bgVal, vcc, adcIn, volts, lastSaved, delivered,
                   late>>
    /\ UNCHANGED rsVars
    /\ UNCHANGED envVars

\* void toEEPROM()
toEEPROM_call ==
    /\ pc = "idle"
    /\ eeprom' = toEEPROM(bgRefmV)
    /\ lastSaved' = <<bgRefmV>>
    /\ touched' = RecordBytes
    /\ lastCall' = "toEEPROM"
    /\ ok' = FALSE
    /\ UNCHANGED <<pc, state, key, nextUpdate, bgRefmV, ncalls, out, lastShown,
                   divByZero, bgVal, vcc, adcIn, volts, delivered, late>>
    /\ UNCHANGED rsVars
    /\ UNCHANGED envVars

\* bool fromEEPROM()
fromEEPROM_call ==
    /\ pc = "idle"
    /\ ok' = fromEEPROM_ok(eeprom)
    /\ bgRefmV' = fromEEPROM_ref(eeprom, bgRefmV)
    /\ lastCall' = "fromEEPROM"
    /\ touched' = RecordBytes
    /\ UNCHANGED <<pc, state, key, nextUpdate, eeprom, ncalls, out, lastShown,
                   divByZero, bgVal, vcc, adcIn, volts, lastSaved, delivered,
                   late>>
    /\ UNCHANGED rsVars
    /\ UNCHANGED envVars

NextPersist ==
    \/ setBGRef_call
    \/ construct_call
    \/ toEEPROM_call
    \/ fromEEPROM_call

SpecPersist == InitPersist /\ [][NextPersist]_vars

\* ------------------------------------------------------------ claims
\* The table entry whose byte sequence is exactly s, NO_KEY if there is none.
KeyOfSeq(s) ==
    IF \E k \in KeyIds : KeySeq(k) = s
      THEN CHOOSE k \in KeyIds : KeySeq(k) = s
      ELSE NO_KEY
\* The bytes of the single-byte keys that start no other table entry.
SoloBytes == {b \in 1 .. 255 :
                 /\ KeyOfSeq(<<b>>) # NO_KEY
                 /\ Cardinality(FirstCharRows(<<b, 0, 0>>)) = 1}
\* A step of readSerial that reads one byte from the transport.
ReadsByte == pc = "rs_loop" /\ SerialAvailable(rx) /\ rx' = Tail(rx)
\* A step on which readSerial returns to calibrateBG.
Returns == pc \in {"poll", "rs_loop"} /\ pc' = "dispatch"
\* A step on which calibrateBG acts on the key k.
ActsOn(k) == pc = "dispatch" /\ key = k /\ pc' # "dispatch"

\* C1: when the transport delivers to one readSerial call exactly the bytes
\* 27, 91, 65, each within tout ms of the byte before it, the call returns
\* KEY_AUP; with 27, 91, 66 it returns KEY_ADN.
C1_ArrowDecoded ==
    (pc = "dispatch" /\ ~late) =>
        /\ (delivered = <<27, 91, 65>> => key = KEY_AUP)
        /\ (delivered = <<27, 91, 66>> => key = KEY_ADN)

C3_SoloKeyAtOnce ==
    [][(ReadsByte /\ bufIdx = 0 /\ Len(rx) = 1 /\ Head(rx) \in SoloBytes)
          => /\ pc' = "dispatch"
             /\ key' = KeyOfSeq(<<Head(rx)>>)
             /\ now' = now]_vars
C3_Witness ==
    pc = "dispatch" /\ key = KEY_SPC /\ delivered = <<32>> /\ rx = <<>>

\* C4: readSerial called with no byte available returns NO_KEY in that very
\* step: the clock has not moved, no byte is consumed, and the reference
\* constant, the EEPROM and the session state are unchanged.
C4_BailAtOnce ==
    [][(pc = "poll" /\ ~SerialAvailable(rx) /\ pc' # "poll")
          => /\ pc' = "dispatch"
             /\ key' = NO_KEY
             /\ now' = now
             /\ rx' = rx
             /\ UNCHANGED <<bgRefmV, eeprom, state, nextUpdate>>]_vars
C4_Witness ==
    pc = "dispatch" /\ key = NO_KEY /\ delivered = <<>> /\ rx = <<>> /\ ~oob

\* C5: when a pass of readSerial reads a byte and returns because nothing
\* partially matches any more, it returns the entry that is exactly the
\* accumulated bytes if there is one, and NO_KEY only when there is none.
C5_BestResult ==
    [][(ReadsByte /\ bufIdx < KBUFSZ /\ pc' = "dispatch")
          => key' = KeyOfSeq(Append(SubSeq(buf, 1, bufIdx), Head(rx)))]_vars

\* C6: CR and LF bytes behind a key do not change the key the call returns:
\* a pass that reads the byte of a single-byte key, as the first byte of the
\* call, while only CR and LF bytes are buffered behind it, returns the key
\* it returns when nothing is buffered behind it.
C6_LineEndsIgnored ==
    [][(/\ ReadsByte
        /\ bufIdx = 0
        /\ Head(rx) \in SoloBytes
        /\ \A i \in 2 .. Len(rx) : rx[i] \in {CR, LF}
        /\ pc' = "dispatch")
          => key' = KeyOfSeq(<<Head(rx)>>)]_vars

\* C7: calibrateBG returns only on escape or 'q' decoded in menu state.
C7_OnlyExit ==
    [][(pc # "idle" /\ pc' = "idle")
          => /\ pc = "dispatch"
             /\ key \in {KEY_ESC, KEY_q}
             /\ state = FT_STATE_MENU]_vars
C7_Witness ==
    /\ pc = "idle"
    /\ ncalls > 0
    /\ key \in {KEY_ESC, KEY_q}
    /\ state = FT_STATE_MENU

\* C8: '1' in menu state: with the signature "bgID" in the EEPROM record the
\* reference becomes the stored value, success is printed and the state is
\* tune; otherwise the failure text is printed, the state stays menu and the
\* reference is unchanged.  The EEPROM is not written.
C8_Load ==
    [][(ActsOn(KEY_1) /\ state = FT_STATE_MENU)
          => /\ eeprom' = eeprom
             /\ IF eeprom.label = bgEEPROMID
                  THEN /\ bgRefmV' = eeprom.bgRef
                       /\ out' = <<Line("retrieved", 0)>>
                       /\ state' = FT_STATE_TUNE
                  ELSE /\ bgRefmV' = bgRefmV
                       /\ out' = <<Line("nosaved", 0)>>
                       /\ state' = FT_STATE_MENU]_vars
C8_Witness ==
    /\ pc = "poll"
    /\ key = KEY_1
    /\ out = <<Line("nosaved", 0)>>
    /\ state = FT_STATE_MENU
    /\ eeprom.label # bgEEPROMID

\* C9: '2' in menu state writes the record (signature, current reference),
\* prints the success text, leaves the reference alone and enters tune.
C9_Save ==
    [][(ActsOn(KEY_2) /\ state = FT_STATE_MENU)
          => /\ eeprom' = [label |-> bgEEPROMID, bgRef |-> bgRefmV]
             /\ out' = <<Line("saved", 0)>>
             /\ bgRefmV' = bgRefmV
             /\ state' = FT_STATE_TUNE]_vars
C9_Witness ==
    /\ pc = "poll"
    /\ key = KEY_2
    /\ out = <<Line("saved", 0)>>
    /\ state = FT_STATE_TUNE
    /\ eeprom = [label |-> bgEEPROMID, bgRef |-> bgRefmV]
    /\ bgRefmV # BGREFmV

\* C10: in tune state an up key (arrow or 'k') raises the reference by
\* exactly 1, a down key (arrow or 'j') lowers it by exactly 1, and the state
\* stays tune.
C10_StepByOne ==
    [][(pc = "dispatch" /\ state = FT_STATE_TUNE /\ pc' # "dispatch")
          => /\ (key \in {KEY_AUP, KEY_k}
                   => bgRefmV' = bgRefmV + 1 /\ state' = FT_STATE_TUNE)
             /\ (key \in {KEY_ADN, KEY_j}
                   => bgRefmV' = bgRefmV - 1 /\ state' = FT_STATE_TUNE)]_vars

\* C11: every invocation of calibrateBG starts in menu state, and in menu
\* state a decoded space moves the state to tune and leaves the reference and
\* the EEPROM record unchanged.
C11_StartAndSpace ==
    [][/\ ((pc = "idle" /\ pc' # "idle") => state' = FT_STATE_MENU)
       /\ ((ActsOn(KEY_SPC) /\ state = FT_STATE_MENU)
             => /\ state' = FT_STATE_TUNE
                /\ bgRefmV' = bgRefmV
                /\ eeprom' = eeprom)]_vars
C11_Witness ==
    /\ pc = "poll"
    /\ key = KEY_SPC
    /\ state = FT_STATE_TUNE
    /\ ncalls = 1

\* C12: in tune state a decoded space, escape or 'q' moves the state to menu
\* and does not end the loop.
C12_TuneToMenu ==
    [][(pc = "dispatch" /\ key \in {KEY_SPC, KEY_ESC, KEY_q}
          /\ state = FT_STATE_TUNE /\ pc' # "dispatch")
          => state' = FT_STATE_MENU /\ pc' = "poll"]_vars
C12_Witness ==
    /\ pc = "poll"
    /\ key \in {KEY_ESC, KEY_q}
    /\ state = FT_STATE_MENU
    /\ out = <<Menu>>
    /\ ncalls = 1

\* A step that prints the Vcc / BG ref display line.
Shows == Len(out') = 2 /\ out'[1].t = "vcc"

\* C13: a display line is printed only in tune state, only when the decoder
\* returned NO_KEY, and at least updateFreq ms after the display line before
\* it.
C13_DisplaySpacing ==
    [][Shows => /\ pc = "dispatch"
                /\ state = FT_STATE_TUNE
                /\ key = NO_KEY
                /\ (lastShown # <<>> => now - lastShown[1] >= updateFreq)]_vars

\* the quotient n / d rounded to the nearest integer
Round(n, d) == (2 * n + d) \div (2 * d)

\* C14: for a sample a in 1..1024 and a reference r in 1000..1200 readVcc
\* returns r * 1024 / a rounded to the nearest integer.
C14_VccRounded ==
    (lastCall = "readVcc" /\ bgVal \in 1 .. 1024 /\ bgRefmV \in 1000 .. 1200)
        => vcc = Round(bgRefmV * 1024, bgVal)

\* C15: for a fixed reference in 1000..1200 a larger sample never gives a
\* larger result of readVcc, over all samples 1..1024.
C15_VccMonotone ==
    [][(/\ lastCall = "readVcc" /\ lastCall' = "readVcc"
        /\ bgRefmV \in 1000 .. 1200 /\ bgRefmV' = bgRefmV
        /\ bgVal \in 1 .. 1024 /\ bgVal' \in 1 .. 1024
        /\ bgVal' > bgVal)
          => vcc' <= vcc]_vars

\* C16: with a zero sample readVcc performs no division by zero.
C16_ZeroSampleGuarded ==
    (lastCall \in {"readVcc", "analogVoltage"} /\ bgVal = 0) => ~divByZero

\* C17: a channel sample of 0 gives 0 mV and a channel sample of 1023 gives
\* exactly the supply estimate, for every supply estimate.
C17_ScaleEnds ==
    lastCall = "analogVoltage"
        => /\ (adcIn = 0 => volts = 0)
           /\ (adcIn = 1023 => volts = vcc)
C17_Witness ==
    lastCall = "analogVoltage" /\ adcIn = 1023 /\ volts = vcc /\ vcc > 5000

\* C18 as claimed: analogVoltage returns s * V / 1023 rounded to the nearest
\* integer.
C18_ScaleNearest ==
    lastCall = "analogVoltage" => volts = Round(adcIn * vcc, 1023)
\* C18 amended: analogVoltage returns s * V / 1023 rounded down.
C18_ScaleFloor ==
    lastCall = "analogVoltage" => volts = (adcIn * vcc) \div 1023
C18_Witness ==
    /\ lastCall = "analogVoltage"
    /\ adcIn = 1000
    /\ volts = (adcIn * vcc) \div 1023
    /\ volts # Round(adcIn * vcc, 1023)

\* C19: once toEEPROM has been called with the reference equal to x, a
\* fromEEPROM call returns true and sets the reference to x, whatever the
\* reference was set to in between and whether or not the object is new.
C19_RoundTrip ==
    (lastCall = "fromEEPROM" /\ lastSaved # <<>>)
        => ok /\ bgRefmV = lastSaved[1]
C19_Witness ==
    /\ lastCall = "fromEEPROM"
    /\ lastSaved = <<65535>>
    /\ ok
    /\ bgRefmV = 65535

\* C20: fromEEPROM returns true exactly when the five bytes of the stored
\* label are the signature "bgID" and its terminator.
C20_ValidIffSignature ==
    lastCall = "fromEEPROM" => (ok <=> eeprom.label = bgEEPROMID)
C20_Witness ==
    /\ lastCall = "fromEEPROM"
    /\ ~ok
    /\ eeprom.label = <<98, 103, 73, 68, 88>>

\* C21: a fromEEPROM call that returns false leaves the reference exactly as
\* it was before the call.
C21_FalseKeepsRef ==
    [][(lastCall' = "fromEEPROM" /\ ~ok') => bgRefmV' = bgRefmV]_vars
C21_Witness ==
    /\ lastCall = "fromEEPROM"
    /\ ~ok
    /\ eeprom.label = <<98, 103, 73, 68, 88>>
    /\ eeprom.bgRef = 1125
    /\ bgRefmV = 65535

\* C22: an object built with the default constructor holds the stored
\* reference when the EEPROM record carries the signature, and BGREFmV when it
\* does not.
C22_DefaultCtor ==
    lastCall = "PrecisionADC()"
        => bgRefmV = IF eeprom.label = bgEEPROMID THEN eeprom.bgRef
                                                   ELSE BGREFmV
C22_Witness ==
    /\ lastCall = "PrecisionADC()"
    /\ eeprom = [label |-> bgEEPROMID, bgRef |-> 65535]
    /\ bgRefmV = 65535
    /\ lastSaved = <<65535>>

\* C23: the record is written and read at the addresses from
\* storage size - sizeof(record) to the last EEPROM byte, the same for save
\* and load.
C23_RecordAtEnd ==
    lastCall \in {"toEEPROM", "fromEEPROM", "PrecisionADC()"}
        => touched = ((E2END + 1) - SizeofBgMem) .. E2END

\* A step that prints the menu text.
PrintsMenu == \E i \in 1 .. Len(out') : out'[i] = Menu
\* A step on which calibrateBG is entered.
Enters == pc = "idle" /\ pc' # "idle"
\* A step on which calibrateBG goes from tune state to menu state.
TuneToMenu ==
    /\ pc = "dispatch"
    /\ pc' # "dispatch"
    /\ state = FT_STATE_TUNE
    /\ state' = FT_STATE_MENU

\* C24: the menu text is printed, once, on entry of calibrateBG and on every
\* step from tune state to menu state, and on no other step.
C24_MenuOnEntry ==
    [][/\ ((Enters \/ TuneToMenu) => out' = <<Menu>>)
       /\ (PrintsMenu => (Enters \/ TuneToMenu))]_vars
C24_Witness ==
    /\ pc = "poll"
    /\ key = KEY_SPC
    /\ state = FT_STATE_MENU
    /\ out = <<Menu>>
    /\ ncalls = 1

C30_OtherKeysIgnored ==
    [][(/\ pc = "dispatch"
        /\ pc' # "dispatch"
        /\ \/ state = FT_STATE_MENU /\ key \in {KEY_AUP, KEY_ADN, KEY_j, KEY_k}
           \/ state = FT_STATE_TUNE /\ key \in {KEY_1, KEY_2})
          => /\ pc' = "poll"
             /\ state' = state
             /\ bgRefmV' = bgRefmV
             /\ eeprom' = eeprom
             /\ out' = <<>>]_vars
C30_Witness ==
    /\ pc = "poll"
    /\ key = KEY_1
    /\ state = FT_STATE_TUNE
    /\ out = <<>>
    /\ nsent = 2
    /\ ncalls = 1

\* C26: the pass that accepts the third byte of a call returns, so that no
\* further byte is read and the deadline is not waited for.
C26_FullBufferReturns ==
    [][(ReadsByte /\ bufIdx = KBUFSZ - 1 /\ Head(rx) \notin {CR, LF})
          => pc' = "dispatch"]_vars

\* C27: every pass of the read loop stores the byte it reads at an index
\* below KBUFSZ.
C27_IndexInBounds ==
    [][ReadsByte => bufIdx < KBUFSZ]_vars

\* C28: when the bytes delivered to one readSerial call are the sequences of
\* two keys one after the other, the call returns the first key and leaves
\* the bytes of the second key in the receive buffer.
C28_BackToBack ==
    \A k1 \in KeyIds : \A k2 \in KeyIds :
        (pc = "dispatch" /\ delivered = KeySeq(k1) \o KeySeq(k2))
            => key = k1 /\ rx = KeySeq(k2)

\* C29: a readSerial call returns at the latest tout ms after the last byte
\* it accepted.  While the call runs its deadline is never more than tout ms
\* ahead; a pass that does not return moves the deadline only when it
\* accepts a byte, which it does at most KBUFSZ times, a CR or LF never; and
\* once the deadline has passed the call reads nothing more and returns.
C29_CallBounded ==
    [][pc = "rs_loop"
          => /\ exitAt - now <= tout
             /\ (ReadsByte /\ Head(rx) \in {CR, LF} /\ pc' = "rs_loop"
                   => exitAt' = exitAt)
             /\ (exitAt' # exitAt /\ pc' = "rs_loop"
                   => /\ ReadsByte
                      /\ bufIdx' = bufIdx + 1
                      /\ bufIdx' <= KBUFSZ)
             /\ (~U32Less(now, exitAt)
                   => \/ pc' = "dispatch" /\ rx' = rx
                      \/ UNCHANGED <<pc, now, buf, bufIdx, exitAt,
                                      matchedKey>>)]_vars
C29_Witness ==
    /\ pc = "dispatch"
    /\ delivered = <<27, 13>>
    /\ key = KEY_ESC
    /\ rx = <<>>
    /\ now = StartTime + tout

\* C31: while calibrateBG runs the EEPROM record changes only on the step
\* that acts on the save key '2' in menu state; the adjustments in tune
\* state, a load and the state changes leave the record as it is, so that
\* the reference in memory and the stored one may differ.
C31_OnlySaveWrites ==
    [][eeprom' # eeprom => ActsOn(KEY_2) /\ state = FT_STATE_MENU]_vars
C31_Witness ==
    /\ pc = "poll"
    /\ key \in {KEY_AUP, KEY_k}
    /\ state = FT_STATE_TUNE
    /\ out = <<Line("up", 0)>>
    /\ eeprom = SavedRecord
    /\ bgRefmV = SavedRecord.bgRef + 1

\* The buffer the table scan of a readSerial pass works on: the buffer with
\* the byte just read when the pass stores it inside buf, else buf as it is.
Scanned ==
    IF ReadsByte /\ bufIdx < KBUFSZ /\ Head(rx) \notin {CR, LF}
      THEN [buf EXCEPT ![bufIdx + 1] = Head(rx)]
      ELSE buf

C34_NoWrap ==
    [][/\ ~(bgRefmV = 0 /\ bgRefmV' = 65535)
       /\ ~(bgRefmV = 65535 /\ bgRefmV' = 0)]_vars

\* C35: when nextUpdate = millis() + updateFreq, computed at a display line,
\* wrapped around and is smaller than the time of that display line, the
\* next display line still comes at least updateFreq ms after it.
C35_SpacingAcrossWrap ==
    [][(Shows /\ lastShown # <<>> /\ U32Less(nextUpdate, lastShown[1]))
          => now - lastShown[1] >= updateFreq]_vars

\* the step before printed the Vcc / BG ref display line
Shown == Len(out) = 2 /\ out[1].t = "vcc"

\* C32: if from some time on the state is tune and no byte is waiting, a
\* display line is printed again and again for ever, and every display line
\* carries readVcc() and bgRefmV as they are on that step.
C32_DisplayRecurs ==
    /\ [][Shows => /\ out'[2] = Line("bgref", bgRefmV)
                   /\ \E a \in AdcSamples :
                          out'[1].v \in readVcc(bgRefmV, a)]_vars
    /\ (<>[](state = FT_STATE_TUNE /\ rx = <<>>) => []<>Shown)
C32_Witness ==
    /\ Shown
    /\ state = FT_STATE_TUNE
    /\ key = NO_KEY
    /\ lastShown = <<now>>
    /\ now = StartTime + 2 * LongStep
    /\ nextUpdate = now + updateFreq
    /\ out = <<Line("vcc", 5120), Line("bgref", SavedRecord.bgRef)>>

====
